---- MODULE Spec2Model ----
(***************************************************************************)
(* BitsVec<T> of rust-fillings (src/src/rust-fillings/src/lib.rs): a       *)
(* vector of fixed-width codes packed most-significant-bit first into      *)
(* machine words.  The element type is usize, whose codec is the identity  *)
(* cast, so an element is its code.                                        *)
(*                                                                         *)
(* A machine word has W bits.  The crate takes W from the platform         *)
(* (usize::MAX.count_ones(), 32 or 64); the model fixes W = 8, the word    *)
(* width of the worked example of the specification, and keeps every word  *)
(* operation at that width (shifts drop the bits that leave the word).     *)
(*                                                                         *)
(* A shift by W or more is an arithmetic overflow in Rust: a build with    *)
(* overflow checks panics, a build without them shifts by the amount       *)
(* modulo W.  Every operation takes the flag chk (overflow checks on); the *)
(* build is chosen once, before the program starts.                        *)
(*                                                                         *)
(* The vectors explored hold fewer than 2^W bits, so the index products    *)
(* i * bits of checked_get and set stay within the word; the product of    *)
(* reserve, whose factor is an argument, is kept at the word width.        *)
(***************************************************************************)
EXTENDS Integers, Sequences, FiniteSets, TLC

W == 8

\* Exploration bounds.
MaxDense == 5
MaxCount == 7
MaxLen == 17
MaxSrc == 2
MaxIter == 2

NoArg == -1

(***************************************************************************)
(* Word arithmetic on usize.                                               *)
(***************************************************************************)
Pow2(n) == 2 ^ n

RECURSIVE BitAnd(_, _)
BitAnd(x, y) ==
    IF x = 0 \/ y = 0 THEN 0
    ELSE (x % 2) * (y % 2) + 2 * BitAnd(x \div 2, y \div 2)

RECURSIVE BitOr(_, _)
BitOr(x, y) ==
    IF x = 0 THEN y
    ELSE IF y = 0 THEN x
    ELSE (IF x % 2 = 1 \/ y % 2 = 1 THEN 1 ELSE 0) + 2 * BitOr(x \div 2, y \div 2)

\* x << n and x >> n without overflow checks (the amount is taken modulo W).
Shl(x, n) == (x * Pow2(n % W)) % Pow2(W)
Shr(x, n) == x \div Pow2(n % W)

\* The shift amount n overflows the word.
Ovf(n) == n >= W

(***************************************************************************)
(* Results of the operations: the vector as the call leaves it and the     *)
(* panic it ended with ("none" when it returned).                          *)
(***************************************************************************)
Res(v, p) == [v |-> v, panic |-> p]

None == [some |-> FALSE, val |-> NoArg, panic |-> "none"]
Some(x) == [some |-> TRUE, val |-> x, panic |-> "none"]
Panicked(p) == [some |-> FALSE, val |-> NoArg, panic |-> p]

\* ReprUsize for usize: both casts are the identity on a word.
into_usize(x) == x % Pow2(W)
from_usize(x) == x % Pow2(W)

new(b) ==
    LET max == W
    IN  Res([inner |-> <<0>>, units |-> 0, bits |-> b, max_bits |-> max,
             leftover |-> max],
            IF b < max THEN "none" ELSE "width")

\* value <<= shift; self.inner[idx] |= value; self.units += 1  (idx counts from 1)
pushStore(self, value, shift, idx, chk) ==
    IF chk /\ Ovf(shift) THEN Res(self, "shift")
    ELSE Res([self EXCEPT !.inner[idx] = BitOr(@, Shl(value, shift)),
                          !.units = @ + 1], "none")

\* pushSplit without line 94: the high part is not stored in the last word.
pushSplitDropsHigh(self, value, idx, chk) ==
    LET left == self.bits - self.leftover
        low  == IF self.leftover # 0 THEN BitAnd(value, Shl(1, left) - 1) ELSE value
        next == [self EXCEPT !.inner = Append(@, 0),
                             !.leftover = self.max_bits - left]
    IN  IF chk /\ Ovf(left) THEN Res(self, "shift")
        ELSE pushStore(next, low, self.max_bits - left, idx + 1, chk)

\* The branch of push that splits the value over the last word and a new one.
pushSplit(self, value, idx, chk) ==
    LET left == self.bits - self.leftover
        head == [self EXCEPT !.inner[idx] = BitOr(@, Shr(value, left))]
        low  == IF self.leftover # 0 THEN BitAnd(value, Shl(1, left) - 1) ELSE value
        next == [head EXCEPT !.inner = Append(@, 0),
                             !.leftover = self.max_bits - left]
    IN  IF chk /\ Ovf(left) THEN Res(self, "shift")
        ELSE pushStore(next, low, self.max_bits - left, idx + 1, chk)

\* pushFit that appends the next word as soon as the last one is full.
pushFitEager(self, value, idx, chk) ==
    LET r == pushStore([self EXCEPT !.leftover = self.leftover - self.bits],
                       value, self.leftover - self.bits, idx, chk)
    IN  IF r.panic = "none" /\ r.v.leftover = 0
        THEN Res([r.v EXCEPT !.inner = Append(@, 0), !.leftover = self.max_bits], "none")
        ELSE r

\* The branch of push that fits the value into the last word.
pushFit(self, value, idx, chk) ==
    pushStore([self EXCEPT !.leftover = self.leftover - self.bits],
              value, self.leftover - self.bits, idx, chk)

\* push without the assert of lines 86-87.
pushUnchecked(self, v, chk) ==
    LET value == into_usize(v)
        idx   == Len(self.inner)
    IN  IF self.leftover < self.bits THEN pushSplit(self, value, idx, chk)
        ELSE pushFit(self, value, idx, chk)

push(self, v, chk) ==
    LET value == into_usize(v)
        idx   == Len(self.inner)
    IN  IF chk /\ Ovf(self.bits) THEN Res(self, "shift")
        ELSE IF Shr(value, self.bits) # 0 THEN Res(self, "value")
        ELSE IF self.leftover < self.bits THEN pushSplit(self, value, idx, chk)
        ELSE pushFit(self, value, idx, chk)

\* The read of an element that lies in one word (val is already masked).
getWithin(self, val, diff, chk) ==
    IF chk /\ Ovf(diff - self.bits) THEN Panicked("shift")
    ELSE Some(from_usize(Shr(val, diff - self.bits)))

\* getAcross without the part read from the next word.
getAcrossIgnoresNext(self, val, idx, diff, chk) ==
    LET shift == self.bits - diff
    IN  IF chk /\ (Ovf(shift) \/ Ovf(self.max_bits - shift)) THEN Panicked("shift")
        ELSE Some(from_usize(Shl(val, shift)))

\* The read of an element that spans the words idx and idx + 1 (idx from 0).
getAcross(self, val, idx, diff, chk) ==
    LET shift == self.bits - diff
    IN  IF chk /\ (Ovf(shift) \/ Ovf(self.max_bits - shift)) THEN Panicked("shift")
        ELSE Some(from_usize(BitOr(Shl(val, shift),
                                   Shr(self.inner[idx + 2], self.max_bits - shift))))

\* checked_get with the bound off by one (i > self.units).
checked_getOffByOne(self, i, chk) ==
    IF i > self.units THEN None
    ELSE LET idx  == (i * self.bits) \div self.max_bits
             bits == (i * self.bits) % self.max_bits
             diff == self.max_bits - bits
             word == self.inner[idx + 1]
             val  == IF bits # 0 THEN BitAnd(word, Shl(1, diff) - 1) ELSE word
         IN  IF chk /\ bits # 0 /\ Ovf(diff) THEN Panicked("shift")
             ELSE IF diff >= self.bits THEN getWithin(self, val, diff, chk)
             ELSE getAcross(self, val, idx, diff, chk)

checked_get(self, i, chk) ==
    IF i >= self.units THEN None
    ELSE LET idx  == (i * self.bits) \div self.max_bits
             bits == (i * self.bits) % self.max_bits
             diff == self.max_bits - bits
             word == self.inner[idx + 1]
             val  == IF bits # 0 THEN BitAnd(word, Shl(1, diff) - 1) ELSE word
         IN  IF chk /\ bits # 0 /\ Ovf(diff) THEN Panicked("shift")
             ELSE IF diff >= self.bits THEN getWithin(self, val, diff, chk)
             ELSE getAcross(self, val, idx, diff, chk)

get(self, i, chk) ==
    IF ~(i < self.units) THEN Panicked("bounds")
    ELSE LET r == checked_get(self, i, chk)
         IN  IF r.panic = "none" /\ ~r.some THEN Panicked("unwrap") ELSE r

\* setWithin that does not put back the bits after the element (val | last).
setWithinDropsTail(self, value, idx, bits, diff, chk) ==
    LET shift == diff - self.bits
        val   == self.inner[idx + 1]
        mask  == IF bits = 0 THEN 0 ELSE Shl(Shl(1, bits) - 1, diff)
        kept  == BitOr(BitAnd(val, mask), Shl(value, shift))
    IN  IF chk /\ (Ovf(shift) \/ (bits # 0 /\ (Ovf(bits) \/ Ovf(diff))))
        THEN Res(self, "shift")
        ELSE Res([self EXCEPT !.inner[idx + 1] = kept], "none")

\* The write of an element that lies in the word idx (idx from 0).
setWithin(self, value, idx, bits, diff, chk) ==
    LET shift == diff - self.bits
        val   == self.inner[idx + 1]
        last  == BitAnd(val, Shl(1, shift) - 1)
        mask  == IF bits = 0 THEN 0 ELSE Shl(Shl(1, bits) - 1, diff)
        kept  == BitOr(BitAnd(val, mask), Shl(value, shift))
    IN  IF chk /\ (Ovf(shift) \/ (bits # 0 /\ (Ovf(bits) \/ Ovf(diff))))
        THEN Res(self, "shift")
        ELSE Res([self EXCEPT !.inner[idx + 1] = BitOr(kept, last)], "none")

\* setAcross that does not clear the old top bits of the next word.
setAcrossKeepsOld(self, value, idx, diff, chk) ==
    LET shift == self.bits - diff
        high  == BitOr(Shl(Shr(self.inner[idx + 1], diff), diff), Shr(value, shift))
        last  == BitAnd(value, Shl(1, shift) - 1)
        low   == BitOr(self.inner[idx + 2], Shl(last, self.max_bits - shift))
    IN  IF chk /\ (Ovf(diff) \/ Ovf(shift) \/ Ovf(self.max_bits - shift))
        THEN Res(self, "shift")
        ELSE Res([self EXCEPT !.inner[idx + 1] = high, !.inner[idx + 2] = low], "none")

\* The write of an element that spans the words idx and idx + 1 (idx from 0).
setAcross(self, value, idx, diff, chk) ==
    LET shift == self.bits - diff
        high  == BitOr(Shl(Shr(self.inner[idx + 1], diff), diff), Shr(value, shift))
        last  == BitAnd(value, Shl(1, shift) - 1)
        low   == BitOr(BitAnd(self.inner[idx + 2], Shl(1, self.max_bits - shift) - 1),
                       Shl(last, self.max_bits - shift))
    IN  IF chk /\ (Ovf(diff) \/ Ovf(shift) \/ Ovf(self.max_bits - shift))
        THEN Res(self, "shift")
        ELSE Res([self EXCEPT !.inner[idx + 1] = high, !.inner[idx + 2] = low], "none")

set(self, i, v, chk) ==
    LET value == into_usize(v)
        idx   == (i * self.bits) \div self.max_bits
        bits  == (i * self.bits) % self.max_bits
        diff  == self.max_bits - bits
    IN  IF ~(i < self.units) THEN Res(self, "bounds")
        ELSE IF chk /\ Ovf(self.bits) THEN Res(self, "shift")
        ELSE IF Shr(value, self.bits) # 0 THEN Res(self, "value")
        ELSE IF diff >= self.bits THEN setWithin(self, value, idx, bits, diff, chk)
        ELSE setAcross(self, value, idx, diff, chk)

len(self) == self.units

\* is_empty that asks the storage, which always holds a word.
is_emptyOfStorage(self) == Len(self.inner) = 0

is_empty(self) == self.units = 0

inner_len(self) == Len(self.inner)

\* a * b in usize: the product as the build without overflow checks keeps it,
\* and whether it overflows the word.
Mul(a, b) == (a * b) % Pow2(W)
MulOvf(a, b) == a * b >= Pow2(W)

\* The largest usize.
UsizeMax == Pow2(W) - 1

\* The words reserve asks the allocation for.
reserveWords(self, additional) == Mul(additional, self.bits) \div self.max_bits + 1

\* self.inner.reserve(additional * self.bits / self.max_bits + 1).  The call
\* changes the capacity of the allocation only, which no operation of BitsVec
\* shows; the product is computed first and may overflow.  (A request the
\* allocator cannot serve is not modelled.)
reserve(self, additional, chk) ==
    IF chk /\ MulOvf(additional, self.bits) THEN Res(self, "overflow")
    ELSE Res(self, "none")

with_capacity(b, capacity, chk) ==
    LET vec == new(b)
    IN  IF vec.panic # "none" THEN vec ELSE reserve(vec.v, capacity, chk)

\* PartialEq that does not compare the lengths.
eqIgnoresLength(self, other) ==
    IF self.bits # other.bits THEN FALSE
    ELSE self.inner = other.inner

\* PartialEq
eq(self, other) ==
    IF self.units # other.units \/ self.bits # other.bits THEN FALSE
    ELSE self.inner = other.inner


\* for _ in 0..n { self.push(value.clone()) }
RECURSIVE pushN(_, _, _, _)
pushN(self, n, value, chk) ==
    IF n = 0 THEN Res(self, "none")
    ELSE LET r == push(self, value, chk)
         IN  IF r.panic # "none" THEN r ELSE pushN(r.v, n - 1, value, chk)

\* Phase 1 that stops as soon as the next element does not fit the last word.
RECURSIVE extendAlignWhileRoom(_, _, _, _)
extendAlignWhileRoom(self, remain, value, chk) ==
    IF self.leftover >= self.bits /\ self.leftover > 0
    THEN LET r == push(self, value, chk)
         IN  IF r.panic # "none"
             THEN [v |-> r.v, panic |-> r.panic, remain |-> remain, done |-> TRUE]
             ELSE IF remain - 1 = 0
             THEN [v |-> r.v, panic |-> "none", remain |-> 0, done |-> TRUE]
             ELSE extendAlignWhileRoom(r.v, remain - 1, value, chk)
    ELSE [v |-> self, panic |-> "none", remain |-> remain, done |-> FALSE]

\* Phase 1 of extend_with_element: push until the last word is full.
\* done: the function returned (or panicked) inside the loop.
RECURSIVE extendAlign(_, _, _, _)
extendAlign(self, remain, value, chk) ==
    IF self.leftover > 0
    THEN LET r == push(self, value, chk)
         IN  IF r.panic # "none"
             THEN [v |-> r.v, panic |-> r.panic, remain |-> remain, done |-> TRUE]
             ELSE IF remain - 1 = 0
             THEN [v |-> r.v, panic |-> "none", remain |-> 0, done |-> TRUE]
             ELSE extendAlign(r.v, remain - 1, value, chk)
    ELSE [v |-> self, panic |-> "none", remain |-> remain, done |-> FALSE]

\* Phase 2 that fills the block vector with as many elements as a word has bits.
RECURSIVE extendBlockOfW(_, _, _, _)
extendBlockOfW(temp, remain, value, chk) ==
    IF temp.units < temp.max_bits /\ remain > 0
    THEN LET r == push(temp, value, chk)
         IN  IF r.panic # "none" THEN r ELSE extendBlockOfW(r.v, remain, value, chk)
    ELSE Res(temp, "none")

\* Phase 2: the loop that fills the block vector temp up to a word boundary.
RECURSIVE extendBlock(_, _, _, _)
extendBlock(temp, remain, value, chk) ==
    IF temp.leftover > 0 /\ remain > 0
    THEN LET r == push(temp, value, chk)
         IN  IF r.panic # "none" THEN r ELSE extendBlock(r.v, remain, value, chk)
    ELSE Res(temp, "none")

\* Phase 3 without line 238: the copied elements are not counted.
RECURSIVE extendCopyLosesCount(_, _, _)
extendCopyLosesCount(self, temp, remain) ==
    IF remain >= temp.units
    THEN extendCopyLosesCount([self EXCEPT !.inner = @ \o temp.inner],
                              temp, remain - temp.units)
    ELSE [v |-> self, remain |-> remain]

\* Phase 3: append the words of temp while a whole block is still needed.
RECURSIVE extendCopy(_, _, _)
extendCopy(self, temp, remain) ==
    IF remain >= temp.units
    THEN extendCopy([self EXCEPT !.inner = @ \o temp.inner,
                                 !.units = @ + temp.units],
                    temp, remain - temp.units)
    ELSE [v |-> self, remain |-> remain]

\* Phases 2 and 3 and the final pushes, entered with the last word full.
\* (temp.reserve(min(remain, max_bits)) cannot overflow: bits < max_bits.)
extendBulk(self, remain, value, chk) ==
    LET first == push(new(self.bits).v, value, chk)
        temp  == extendBlock(first.v, remain, value, chk)
        copy  == extendCopy(self, temp.v, remain)
    IN  IF first.panic # "none" THEN Res(self, first.panic)
        ELSE IF temp.panic # "none" THEN Res(self, temp.panic)
        ELSE IF remain = 0
        THEN Res([self EXCEPT !.units = @ + temp.v.units,
                              !.inner = @ \o temp.v.inner], "none")
        ELSE pushN(copy.v, copy.remain, value, chk)

\* extend_with_element that returns quietly when there is nothing to add.
extendOrReturn(self, length, value, chk) ==
    IF ~(length > len(self)) THEN Res(self, "none")
    ELSE LET remain == length - len(self)
             rs     == reserve(self, remain, chk)
             p1     == extendAlign(self, remain, value, chk)
         IN  IF rs.panic # "none" THEN rs
             ELSE IF p1.done THEN Res(p1.v, p1.panic)
             ELSE extendBulk(p1.v, p1.remain, value, chk)

extend_with_element(self, length, value, chk) ==
    IF ~(length > len(self)) THEN Res(self, "length")
    ELSE LET remain == length - len(self)
             rs     == reserve(self, remain, chk)
             p1     == extendAlign(self, remain, value, chk)
         IN  IF rs.panic # "none" THEN rs
             ELSE IF p1.done THEN Res(p1.v, p1.panic)
             ELSE extendBulk(p1.v, p1.remain, value, chk)

with_elements(b, length, value, chk) ==
    LET vec == new(b)
    IN  IF vec.panic # "none" THEN vec
        ELSE extend_with_element(vec.v, length, value, chk)

\* Range<usize> of the iterators: next, next_back and size_hint.
rangeNext(r) ==
    IF r.start < r.end
    THEN [range |-> [r EXCEPT !.start = @ + 1], item |-> r.start]
    ELSE [range |-> r, item |-> NoArg]

rangeNextBack(r) ==
    IF r.start < r.end
    THEN [range |-> [r EXCEPT !.end = @ - 1], item |-> r.end - 1]
    ELSE [range |-> r, item |-> NoArg]

rangeSizeHint(r) ==
    LET n == IF r.start < r.end THEN r.end - r.start ELSE 0
    IN  <<n, n>>

\* Iter overrides size_hint with the range's.
IterSizeHint(r) == rangeSizeHint(r)

\* IntoIter does not define size_hint: it has the default of Iterator,
\* (0, None).  The missing upper bound is NoArg.
IntoIterSizeHint(r) == <<0, NoArg>>


(***************************************************************************)
(* The state: one BitsVec (alive when it is constructed and not dropped),  *)
(* at most one iterator over it, the outcome of the last call, and two     *)
(* history variables: model, the codes written by the successful calls, in *)
(* index order, and yielded, what the iterator has returned so far.        *)
(***************************************************************************)
VARIABLES overflow_checks, alive, inner, units, bits, max_bits, leftover,
          it_kind, range, last, model, yielded

vec == <<inner, units, bits, max_bits, leftover>>
vars == <<overflow_checks, alive, inner, units, bits, max_bits, leftover,
          it_kind, range, last, model, yielded>>

Self == [inner |-> inner, units |-> units, bits |-> bits, max_bits |-> max_bits,
         leftover |-> leftover]

NoVec == [inner |-> <<>>, units |-> 0, bits |-> 0, max_bits |-> 0, leftover |-> 0]

Becomes(v) ==
    /\ inner' = v.inner
    /\ units' = v.units
    /\ bits' = v.bits
    /\ max_bits' = v.max_bits
    /\ leftover' = v.leftover

\* The outcome of a call: its name, the panic it ended with and what it returned.
Call(op, panic, out) == [op |-> op, panic |-> panic, out |-> out]

NoRange == [start |-> 0, end |-> 0]

\* n copies of x.
Rep(n, x) == [k \in 1..n |-> x]

(***************************************************************************)
(* The inputs the actions draw and the vectors the exploration keeps.      *)
(***************************************************************************)
\* Two codes of width b with complementary, asymmetric bit patterns.
Vals(b) == IF b = 0 THEN {0} ELSE {1 % Pow2(b), (Pow2(b) - 2) % Pow2(b)}

\* The code pushed at index i by a caller that pushes 1, 2, 3, ...
Count(b, i) == (i + 1) % Pow2(b)

\* Codes that do not fit in b bits.
TooBig(b) == {Pow2(b), Pow2(W) - 1}

\* The sequence m is one code repeated from index k + 1 on.
FilledFrom(m, k) == \A j \in (k + 1)..(Len(m) - 1) : m[j] = m[j + 1]

\* The lengths explored beyond MaxDense: around one and around two blocks of
\* the bulk fill.
LongLens == {W, W + 1, MaxLen - 1, MaxLen}

\* Contents explored at width b: every sequence over Vals up to MaxDense
\* elements, at the lengths LongLens the sequences over Vals that are at most
\* MaxSrc elements followed by one repeated code, and the counting sequences
\* 1, 2, 3, ... up to MaxCount elements.
Counting(m, b) == Len(m) <= MaxCount /\ \A k \in 1..Len(m) : m[k] = Count(b, k - 1)

Within(m, b) ==
    IF \A k \in 1..Len(m) : m[k] \in Vals(b)
    THEN IF Len(m) <= MaxDense THEN TRUE
         ELSE IF Len(m) \in LongLens THEN FilledFrom(m, MaxSrc)
         ELSE Counting(m, b)
    ELSE Counting(m, b)

Init ==
    /\ overflow_checks \in BOOLEAN
    /\ alive = FALSE
    /\ inner = NoVec.inner
    /\ units = NoVec.units
    /\ bits = NoVec.bits
    /\ max_bits = NoVec.max_bits
    /\ leftover = NoVec.leftover
    /\ it_kind = "none"
    /\ range = NoRange
    /\ last = Call("none", "none", NoArg)
    /\ model = <<>>
    /\ yielded = <<>>


(***************************************************************************)
(* Construction and destruction.                                           *)
(***************************************************************************)
\* No call has panicked: the caller goes on.
Running == last.panic = "none"

New(b) ==
    /\ Running
    /\ ~alive
    /\ LET r == new(b)
       IN  /\ alive' = (r.panic = "none")
           /\ Becomes(IF r.panic = "none" THEN r.v ELSE NoVec)
           /\ last' = Call("new", r.panic, NoArg)
    /\ model' = <<>>
    /\ UNCHANGED <<overflow_checks, it_kind, range, yielded>>

\* The call returns the words asked for; a panic unwinds through the local
\* vector, so none is returned.
WithCapacity(b, capacity) ==
    /\ Running
    /\ ~alive
    /\ LET r == with_capacity(b, capacity, overflow_checks)
       IN  /\ alive' = (r.panic = "none")
           /\ Becomes(IF r.panic = "none" THEN r.v ELSE NoVec)
           /\ last' = Call("with_capacity", r.panic,
                           IF r.panic = "none" THEN reserveWords(r.v, capacity) ELSE NoArg)
    /\ model' = <<>>
    /\ UNCHANGED <<overflow_checks, it_kind, range, yielded>>

\* A panic inside with_elements unwinds through the local vector: none is returned.
WithElements(b, length, value) ==
    /\ Running
    /\ ~alive
    /\ IF b < W /\ length > 0 /\ value < Pow2(b)
          /\ ~(overflow_checks /\ MulOvf(length, b))
       THEN Within(Rep(length, value), b) ELSE TRUE
    /\ LET r == with_elements(b, length, value, overflow_checks)
       IN  /\ alive' = (r.panic = "none")
           /\ Becomes(IF r.panic = "none" THEN r.v ELSE NoVec)
           /\ model' = IF r.panic = "none" THEN Rep(length, value) ELSE <<>>
           /\ last' = Call("with_elements", r.panic, NoArg)
    /\ UNCHANGED <<overflow_checks, it_kind, range, yielded>>

\* The owner's scope ends.
Drop ==
    /\ Running
    /\ alive
    /\ it_kind = "none"
    /\ alive' = FALSE
    /\ Becomes(NoVec)
    /\ model' = <<>>
    /\ last' = Call("drop", "none", NoArg)
    /\ UNCHANGED <<overflow_checks, it_kind, range, yielded>>

(***************************************************************************)
(* The operations on the vector.  A mutation needs the exclusive borrow,   *)
(* so none happens while an iterator lives; the reads are explored only    *)
(* then, too.                                                              *)
(***************************************************************************)
Push(value) ==
    /\ Running
    /\ alive
    /\ it_kind = "none"
    /\ IF value < Pow2(bits) THEN Within(Append(model, value), bits) ELSE TRUE
    /\ LET r == push(Self, value, overflow_checks)
       IN  /\ Becomes(r.v)
           /\ model' = IF r.panic = "none" THEN Append(model, value) ELSE model
           /\ last' = Call("push", r.panic, NoArg)
    /\ UNCHANGED <<overflow_checks, alive, it_kind, range, yielded>>

Get(i) ==
    /\ Running
    /\ alive
    /\ it_kind = "none"
    /\ LET r == get(Self, i, overflow_checks)
       IN  last' = Call("get", r.panic, r.val)
    /\ UNCHANGED <<overflow_checks, alive, vec, it_kind, range, model, yielded>>

CheckedGet(i) ==
    /\ Running
    /\ alive
    /\ it_kind = "none"
    /\ LET r == checked_get(Self, i, overflow_checks)
       IN  last' = Call("checked_get", r.panic, r.val)
    /\ UNCHANGED <<overflow_checks, alive, vec, it_kind, range, model, yielded>>

Set(i, value) ==
    /\ Running
    /\ alive
    /\ it_kind = "none"
    /\ IF i < units /\ value < Pow2(bits)
       THEN Within([model EXCEPT ![i + 1] = value], bits) ELSE TRUE
    /\ LET r == set(Self, i, value, overflow_checks)
       IN  /\ Becomes(r.v)
           /\ model' = IF r.panic = "none" /\ i < Len(model)
                       THEN [model EXCEPT ![i + 1] = value]
                       ELSE model
           /\ last' = Call("set", r.panic, NoArg)
    /\ UNCHANGED <<overflow_checks, alive, it_kind, range, yielded>>

Reserve(additional) ==
    /\ Running
    /\ alive
    /\ it_kind = "none"
    /\ LET r == reserve(Self, additional, overflow_checks)
       IN  /\ Becomes(r.v)
           /\ last' = Call("reserve", r.panic,
                           IF r.panic = "none" THEN reserveWords(Self, additional) ELSE NoArg)
    /\ UNCHANGED <<overflow_checks, alive, it_kind, range, model, yielded>>

\* A panic inside a push of the bulk fill leaves the elements pushed before it.
ExtendWithElement(length, value) ==
    /\ Running
    /\ alive
    /\ it_kind = "none"
    /\ IF length > units /\ value < Pow2(bits)
          /\ ~(overflow_checks /\ MulOvf(length - units, bits))
       THEN Within(model \o Rep(length - units, value), bits) ELSE TRUE
    /\ LET r == extend_with_element(Self, length, value, overflow_checks)
       IN  /\ Becomes(r.v)
           /\ model' = IF r.panic = "none"
                       THEN model \o Rep(length - Len(model), value)
                       ELSE model \o Rep(r.v.units - units, value)
           /\ last' = Call("extend_with_element", r.panic, NoArg)
    /\ UNCHANGED <<overflow_checks, alive, it_kind, range, yielded>>

\* clear that resets the count and the storage but not leftover.
clearKeepsLeftover(self) == [new(self.bits).v EXCEPT !.leftover = self.leftover]

\* clear that truncates the storage to its first word without zeroing it.
clearKeepsWord(self) == [new(self.bits).v EXCEPT !.inner = <<self.inner[1]>>]

\* mem::replace(self, BitsVec::new(bits)): bits < W holds of every live vector.
clear(self) == new(self.bits).v

Clear ==
    /\ Running
    /\ alive
    /\ it_kind = "none"
    /\ Becomes(clear(Self))
    /\ model' = <<>>
    /\ last' = Call("clear", "none", NoArg)
    /\ UNCHANGED <<overflow_checks, alive, it_kind, range, yielded>>

(***************************************************************************)
(* The iterators.  Iter borrows the vector, IntoIter owns it: both keep    *)
(* the index range start..end and read through get.                        *)
(***************************************************************************)
\* An iterator whose range stops one element early.
iterSkipsLast(self) == [start |-> 0, end |-> IF self.units > 0 THEN self.units - 1 ELSE 0]

iter(self) == [start |-> 0, end |-> self.units]

into_iter(self) == [start |-> 0, end |-> self.units]

MakeIter ==
    /\ Running
    /\ alive
    /\ it_kind = "none"
    /\ units <= MaxIter
    /\ it_kind' = "iter"
    /\ range' = iter(Self)
    /\ yielded' = <<>>
    /\ last' = Call("iter", "none", NoArg)
    /\ UNCHANGED <<overflow_checks, alive, vec, model>>

MakeIntoIter ==
    /\ Running
    /\ alive
    /\ it_kind = "none"
    /\ units <= MaxIter
    /\ it_kind' = "into_iter"
    /\ range' = into_iter(Self)
    /\ yielded' = <<>>
    /\ last' = Call("into_iter", "none", NoArg)
    /\ UNCHANGED <<overflow_checks, alive, vec, model>>

\* self.range.next().map(|i| self.vec.get(i)), and the same from the back.
\* step is the range's answer, back tells the end it came from.
Yield(op, step, back) ==
    LET r == IF step.item = NoArg THEN None ELSE get(Self, step.item, overflow_checks)
    IN  /\ range' = step.range
        /\ last' = Call(op, r.panic, r.val)
        /\ yielded' = IF r.some THEN Append(yielded, [back |-> back, out |-> r.val])
                      ELSE yielded
        /\ UNCHANGED <<overflow_checks, alive, vec, it_kind, model>>

IterNext ==
    /\ Running
    /\ it_kind = "iter"
    /\ Yield("next", rangeNext(range), FALSE)

IterNextBack ==
    /\ Running
    /\ it_kind = "iter"
    /\ Yield("next_back", rangeNextBack(range), TRUE)

IntoIterNext ==
    /\ Running
    /\ it_kind = "into_iter"
    /\ Yield("next", rangeNext(range), FALSE)

IntoIterNextBack ==
    /\ Running
    /\ it_kind = "into_iter"
    /\ Yield("next_back", rangeNextBack(range), TRUE)

\* The borrow ends: the vector is as it was.
DropIter ==
    /\ Running
    /\ it_kind = "iter"
    /\ it_kind' = "none"
    /\ range' = NoRange
    /\ yielded' = <<>>
    /\ last' = Call("drop_iter", "none", NoArg)
    /\ UNCHANGED <<overflow_checks, alive, vec, model>>

\* The consuming iterator is dropped and the vector with it.
DropIntoIter ==
    /\ Running
    /\ it_kind = "into_iter"
    /\ it_kind' = "none"
    /\ range' = NoRange
    /\ yielded' = <<>>
    /\ alive' = FALSE
    /\ Becomes(NoVec)
    /\ model' = <<>>
    /\ last' = Call("drop_iter", "none", NoArg)
    /\ UNCHANGED overflow_checks

\* A panic unwinds the caller's stack: the iterator and the vector are dropped.
Unwind ==
    /\ ~Running
    /\ alive' = FALSE
    /\ Becomes(NoVec)
    /\ it_kind' = "none"
    /\ range' = NoRange
    /\ model' = <<>>
    /\ yielded' = <<>>
    /\ last' = Call("unwind", "none", NoArg)
    /\ UNCHANGED overflow_checks

(***************************************************************************)
(* The inputs of each call.  Reads and failing calls are tried at the      *)
(* indexes and lengths next to the valid ones.                             *)
(***************************************************************************)
\* The widths explored.  With overflow checks on, a shift that overflows
\* panics; where none does (NoShiftPanic: every width from 1 on) the build
\* without the checks computes the same, so it is explored at width 0 only.
Widths == IF overflow_checks THEN 0..W ELSE {0, W}
Lengths == (0..MaxDense) \cup LongLens
ReadAt == {i \in {units - 1, units} : i >= 0}

\* set: every valid index with the codes of Vals; an oversize code and an
\* index out of bounds next to the valid ones.
SetArgs ==
    {<<i, value>> \in (0..units) \X (Vals(bits) \cup {Pow2(bits)}) :
        value < Pow2(bits) \/ i \in ReadAt}

\* extend_with_element: every longer length with the codes of Vals; an oversize
\* code and the lengths 0 and len().
ExtendArgs ==
    {<<n, value>> \in (Lengths \cup {UsizeMax}) \X (Vals(bits) \cup {Pow2(bits)}) :
        IF n = UsizeMax THEN value = 1 % Pow2(bits)
        ELSE IF n > units THEN value < Pow2(bits) \/ n = units + 1
        ELSE n \in {0, units} /\ value = 1 % Pow2(bits)}

\* The capacities asked for: none, a few elements, the largest count.
Capacities == {0, MaxDense, UsizeMax}

Next ==
    \/ \E b \in Widths : New(b)
    \/ \E b \in Widths, capacity \in Capacities : WithCapacity(b, capacity)
    \/ \E b \in Widths, n \in Lengths \cup {UsizeMax} :
          \E value \in Vals(b) \cup {Pow2(b)} : WithElements(b, n, value)
    \/ Drop
    \/ \E value \in Vals(bits) \cup {Count(bits, units), Pow2(bits)} : Push(value)
    \/ \E i \in ReadAt : Get(i)
    \/ \E i \in ReadAt : CheckedGet(i)
    \/ \E a \in SetArgs : Set(a[1], a[2])
    \/ \E a \in ExtendArgs : ExtendWithElement(a[1], a[2])
    \/ \E additional \in Capacities : Reserve(additional)
    \/ Clear
    \/ MakeIter
    \/ MakeIntoIter
    \/ IterNext
    \/ IterNextBack
    \/ IntoIterNext
    \/ IntoIterNextBack
    \/ DropIter
    \/ DropIntoIter
    \/ Unwind

Spec == Init /\ [][Next]_vars

\* No call panics on a shift at a width from 1 on.
NoShiftPanic == bits >= 1 => last.panic # "shift"


(***************************************************************************)
(* Properties.                                                             *)
(***************************************************************************)
\* get in the build of this run.
Elem(v, i) == get(v, i, overflow_checks)

\* Element i has bits in two storage words.
Straddles(i) == ((i * bits) % W) + bits > W

\* The codes the properties try at width b (all of them below 2^b).
TestVals(b) == Vals(b) \cup {0, Pow2(b) - 1}

\* The vector is as a constructor or a mutating operation has just left it.
\* Every value the vector takes is first reached in such a state: the other
\* operations (reads, failed calls, iteration) do not change it.
Fresh ==
    /\ alive
    /\ last.panic = "none"
    /\ last.op \in {"new", "with_capacity", "with_elements", "push", "set",
                    "extend_with_element", "clear"}

\* What the iterator in use reports as its size hint.
SizeHint == IF it_kind = "iter" THEN IterSizeHint(range) ELSE IntoIterSizeHint(range)

\* C1: at every width from 1 to W - 1, after any successful pushes and sets
\* (and bulk fills), get(i) returns for every i < len() the code most recently
\* written to index i, also when the element straddles two words.
C1_RoundTrip ==
    (alive /\ bits \in 1..(W - 1)) =>
        /\ len(Self) = Len(model)
        /\ \A i \in 0..(units - 1) : Elem(Self, i) = Some(model[i + 1])

C1_Witness ==
    /\ alive
    /\ last = Call("set", "none", NoArg)
    /\ bits = 7
    /\ units = MaxDense
    /\ \E i \in 1..(units - 1) : Straddles(i) /\ model[i + 1] # model[i]

\* C2: in every vector a constructor or mutating operation leaves, for every i < len() and every code that fits,
\* set(i, value) succeeds, get(i) then returns value, get(j) is unchanged for
\* every j # i, and len(), the number of words, leftover and the width are
\* unchanged.
C2_SetFrame ==
    Fresh =>
        \A i \in 0..(units - 1), value \in TestVals(bits) :
            LET r == set(Self, i, value, overflow_checks)
            IN  /\ r.panic = "none"
                /\ Elem(r.v, i) = Some(value)
                /\ \A j \in (0..(units - 1)) \ {i} :
                      Elem(r.v, j).some /\ Elem(r.v, j) = Elem(Self, j)
                /\ len(r.v) = units
                /\ inner_len(r.v) = Len(inner)
                /\ r.v.leftover = leftover
                /\ r.v.bits = bits

C2_Witness ==
    /\ alive
    /\ last = Call("set", "none", NoArg)
    /\ bits = 3
    /\ units >= 4
    /\ Straddles(2)
    /\ model[3] # model[2]
    /\ model[3] # model[4]

\* C3: for every width, length (0 and the largest count included) and code for
\* which the pushes succeed, with_elements returns a vector structurally equal
\* to the one built by length pushes from new(bits).
C3_Original ==
    (~alive /\ Running) =>
        \A b \in 0..(W - 1), n \in (0..MaxLen) \cup {UsizeMax} :
            \A value \in TestVals(b) :
                LET we == with_elements(b, n, value, overflow_checks)
                    ps == pushN(new(b).v, n, value, overflow_checks)
                IN  ps.panic = "none" => we.panic = "none" /\ eq(we.v, ps.v)

\* The bulk fill at the lengths explored: for every width, every length from 1
\* to MaxLen and every code, with_elements succeeds exactly when length pushes
\* from new(bits) succeed, and the two vectors are then structurally equal,
\* leftover included.
C3_BulkFillEquivalence ==
    (~alive /\ Running) =>
        \A b \in 0..(W - 1), n \in 1..MaxLen :
            \A value \in TestVals(b) \cup TooBig(b) :
                LET we == with_elements(b, n, value, overflow_checks)
                    ps == pushN(new(b).v, n, value, overflow_checks)
                IN  /\ (we.panic = "none") = (ps.panic = "none")
                    /\ we.panic = "none" => eq(we.v, ps.v) /\ we.v = ps.v

C3_Witness ==
    /\ alive
    /\ last = Call("with_elements", "none", NoArg)
    /\ bits = 3
    /\ units = MaxLen
    /\ eq(Self, pushN(new(3).v, MaxLen, model[1], overflow_checks).v)

\* C4: from every vector of length m a constructor or mutating operation leaves, extend_with_element(length,
\* value) with length > m and a code that fits ends (at a width from 1 on,
\* always successfully) with len() = length, get(i) unchanged for i < m and
\* get(i) = value for m <= i < length.
C4_ExtendResult ==
    Fresh =>
        \A n \in (units + 1)..MaxLen, value \in Vals(bits) :
            LET r == extend_with_element(Self, n, value, overflow_checks)
            IN  /\ bits >= 1 => r.panic = "none"
                /\ r.panic = "none" =>
                      /\ len(r.v) = n
                      /\ \A i \in 0..(units - 1) :
                            Elem(r.v, i).some /\ Elem(r.v, i) = Elem(Self, i)
                      /\ \A i \in units..(n - 1) : Elem(r.v, i) = Some(value)

\* Unaligned start, then one block copied, then a last push.
C4_Witness ==
    /\ alive
    /\ last = Call("extend_with_element", "none", NoArg)
    /\ bits = 3
    /\ units = MaxLen
    /\ model[1] # model[2]
    /\ FilledFrom(model, 1)

\* C5: in every reachable vector, push, set (at any index) and
\* extend_with_element (to any length) of a code of 2^bits or more panic and
\* leave the element count, leftover and the words as they were.
C5_ValuePrecondition ==
    alive =>
        \A value \in TooBig(bits) :
            /\ push(Self, value, overflow_checks) = Res(Self, "value")
            /\ \A i \in 0..(units + 1) :
                  LET r == set(Self, i, value, overflow_checks)
                  IN  r.v = Self /\ r.panic = IF i < units THEN "value" ELSE "bounds"
            /\ \A n \in 0..(MaxLen + 1) :
                  LET r == extend_with_element(Self, n, value, overflow_checks)
                  IN  r.v = Self /\ r.panic = IF n > units THEN "value" ELSE "length"

\* The bulk fill of an oversize code into a vector whose last word is full.
C5_Witness ==
    /\ alive
    /\ last = Call("extend_with_element", "value", NoArg)
    /\ units > 0
    /\ leftover = 0
    /\ len(Self) = Len(model)

\* C6: in every reachable vector, for every index i >= len(), get(i) and
\* set(i, v) panic on the bounds and leave the vector unchanged and
\* checked_get(i) returns None; for every i < len(), checked_get(i) returns
\* Some of what get(i) returns.
C6_Bounds ==
    alive =>
        /\ \A i \in units..(MaxLen + 2) :
              /\ Elem(Self, i) = Panicked("bounds")
              /\ checked_get(Self, i, overflow_checks) = None
              /\ \A value \in TestVals(bits) \cup TooBig(bits) :
                    set(Self, i, value, overflow_checks) = Res(Self, "bounds")
        /\ \A i \in 0..(units - 1) :
              LET c == checked_get(Self, i, overflow_checks)
              IN  c.some /\ c.panic = "none" /\ c = Elem(Self, i)

C6_Witness ==
    /\ alive
    /\ units = 0
    /\ last = Call("set", "bounds", NoArg)

\* C7: both iterators report the exact remaining length: after k calls of
\* next and next_back that yielded, the size hint is (n - k, Some(n - k)).
C7_ExactSize ==
    it_kind # "none" =>
        SizeHint = <<units - Len(yielded), units - Len(yielded)>>

\* C8 as stated: width 3, words of 8 bits, after the pushes of 1, ..., 7 the
\* first word is 0b00101011.
C8_Original ==
    (alive /\ bits = 3 /\ max_bits = 8 /\ model = <<1, 2, 3, 4, 5, 6, 7>>) =>
        inner[1] = 43

\* C8 (amended): width 3, words of 8 bits, after the pushes of 1, ..., 7 the
\* words are 001 010 01 | 1 100 101 1 | 10 111 000: the first word is
\* 0b00101001, the element 3 is the one split (its last bit starts the second
\* word), three bits are left over, get(3) = 4 and get(6) = 7.
C8_Example ==
    (alive /\ bits = 3 /\ max_bits = 8 /\ model = <<1, 2, 3, 4, 5, 6, 7>>) =>
        /\ inner = <<41, 203, 184>>
        /\ leftover = 3
        /\ Elem(Self, 3) = Some(4)
        /\ Elem(Self, 6) = Some(7)

C8_Witness ==
    /\ alive
    /\ bits = 3
    /\ max_bits = 8
    /\ model = <<1, 2, 3, 4, 5, 6, 7>>
    /\ last = Call("push", "none", NoArg)

\* C9: extend_with_element to a length <= len() panics and leaves the vector
\* unchanged, whatever the code; with_elements of length 0 panics.
C9_LengthPrecondition ==
    /\ alive =>
          \A n \in 0..units, value \in TestVals(bits) \cup TooBig(bits) :
              extend_with_element(Self, n, value, overflow_checks) = Res(Self, "length")
    /\ (~alive /\ Running) =>
          \A b \in 0..(W - 1) :
              \A value \in TestVals(b) \cup TooBig(b) :
                  with_elements(b, 0, value, overflow_checks).panic = "length"

C9_Witness ==
    /\ alive
    /\ units > 0
    /\ last = Call("extend_with_element", "length", NoArg)
    /\ len(Self) = Len(model)

\* What the iterator has yielded from the front and from the back, in order.
Fronts == SelectSeq(yielded, LAMBDA y : ~y.back)
Backs == SelectSeq(yielded, LAMBDA y : y.back)

IterationInv ==
    it_kind # "none" =>
        /\ \A k \in 1..Len(Fronts) : Some(Fronts[k].out) = Elem(Self, k - 1)
        /\ \A k \in 1..Len(Backs) : Some(Backs[k].out) = Elem(Self, units - k)
        /\ Len(Fronts) + Len(Backs) <= units
        /\ range = [start |-> Len(Fronts), end |-> units - Len(Backs)]
        /\ last.op \in {"next", "next_back"} =>
              /\ last.panic = "none"
              /\ last.out = NoArg => Len(yielded) = units
        /\ Len(yielded) = units =>
              rangeNext(range).item = NoArg /\ rangeNextBack(range).item = NoArg

\* C10: iter and into_iter yield get(0), get(1), ... from the front and
\* get(n - 1), get(n - 2), ... from the back; no index is yielded twice, a call
\* returns nothing only after n yields and after n yields both calls return
\* nothing; while the borrowing iterator lives the vector does not change.
C10_IterationOrder ==
    [][IterationInv' /\ ((it_kind = "iter" /\ Running) => vec' = vec)]_vars

C10_Witness ==
    /\ it_kind = "into_iter"
    /\ bits = 3
    /\ units = MaxIter
    /\ Len(yielded) = units
    /\ Len(Fronts) > 0
    /\ Len(Backs) > 0
    /\ last = Call("next", "none", NoArg)

\* C11: from new(bits), n successful pushes give len() = n and
\* is_empty() = (n = 0), on a word boundary or not; in every vector reached,
\* len() is the number of elements written, a successful push adds one to it
\* and a set leaves it as it is.
C11_Length ==
    /\ (~alive /\ Running) =>
          \A b \in 0..(W - 1), n \in 0..MaxLen :
              \A value \in TestVals(b) :
                  LET ps == pushN(new(b).v, n, value, overflow_checks)
                  IN  ps.panic = "none" =>
                          len(ps.v) = n /\ is_empty(ps.v) = (n = 0)
    /\ alive =>
          /\ len(Self) = Len(model)
          /\ is_empty(Self) = (Len(model) = 0)
          /\ \A value \in Vals(bits) :
                LET r == push(Self, value, overflow_checks)
                IN  r.panic = "none" => len(r.v) = units + 1 /\ ~is_empty(r.v)
          /\ \A i \in ReadAt, value \in Vals(bits) :
                len(set(Self, i, value, overflow_checks).v) = units

\* Four elements of six bits: the last push ends on a word boundary, the two
\* before it straddle one.
C11_Witness ==
    /\ alive
    /\ last = Call("push", "none", NoArg)
    /\ bits = 6
    /\ units = 4
    /\ leftover = 0
    /\ ~is_empty(Self)

\* C12: new(bits) fails iff bits >= W and otherwise returns an empty vector of
\* one zero word with leftover W and the width asked for; with_capacity(bits, n)
\* returns, and reserve(n) leaves, a vector equal to the one without the
\* reservation, whatever n.
C12_Construction ==
    /\ (~alive /\ Running) =>
          \A b \in 0..(W + 1) :
              /\ (new(b).panic # "none") = (b >= W)
              /\ b < W =>
                    /\ new(b).v = [inner |-> <<0>>, units |-> 0, bits |-> b,
                                   max_bits |-> W, leftover |-> W]
                    /\ len(new(b).v) = 0
                    /\ \A n \in 0..UsizeMax :
                          with_capacity(b, n, overflow_checks) = new(b)
    /\ alive =>
          \A n \in 0..UsizeMax :
              reserve(Self, n, overflow_checks) = Res(Self, "none")

\* C13: clear of every vector reached gives new(bits) of the same width
\* (length 0, one zero word, leftover W), field for field, so whatever is
\* applied after clear acts as on a fresh new(bits).
C13_Clear ==
    alive =>
        /\ LET c == clear(Self)
           IN  /\ c = new(bits).v
               /\ eq(c, new(bits).v)
               /\ c.bits = bits
               /\ len(c) = 0
               /\ c.inner = <<0>>
               /\ c.leftover = W
        /\ last.op = "clear" => Self = new(bits).v /\ model = <<>>

C13_Witness ==
    /\ alive
    /\ last = Call("clear", "none", NoArg)
    /\ bits = 5
    /\ Self = new(5).v

\* C14: in every state of a live vector, 0 <= leftover <= W and leftover is the
\* number of unused bits of the last word, W * (number of words) -
\* len() * element_bits, also after the block copies of the bulk fill.
C14_Leftover ==
    alive =>
        /\ 0 <= leftover
        /\ leftover <= max_bits
        /\ leftover = max_bits * inner_len(Self) - len(Self) * bits

\* Two blocks of eight elements of three bits, nothing pushed after them.
C14_Witness ==
    /\ alive
    /\ last = Call("extend_with_element", "none", NoArg)
    /\ bits = 3
    /\ units = 2 * W
    /\ inner_len(Self) = 6
    /\ leftover = 0

Ceil(a, b) == (a + b - 1) \div b
Max(a, b) == IF a >= b THEN a ELSE b

\* C15: in every state of a live vector the storage is not empty and holds
\* max(1, ceil(len() * element_bits / W)) words, so no trailing word when the
\* elements fill the last word exactly; a push appends a word exactly when the
\* element does not fit the last word.
C15_StorageSize ==
    alive =>
        /\ inner_len(Self) >= 1
        /\ inner_len(Self) = Max(1, Ceil(len(Self) * bits, W))
        /\ \A value \in Vals(bits) :
              LET r == push(Self, value, overflow_checks)
              IN  r.panic = "none" =>
                      inner_len(r.v) = inner_len(Self) + (IF leftover < bits THEN 1 ELSE 0)

\* W / 4 elements of four bits in one word, as the crate's test builds them.
C15_Witness ==
    /\ alive
    /\ last = Call("with_elements", "none", NoArg)
    /\ bits = 4
    /\ units = W \div 4
    /\ inner_len(Self) = 1

\* Bit p of the stream of the words, most significant bit first, and bit k of
\* the big-endian binary of a code of width b.
Bit(self, p) ==
    (self.inner[(p \div self.max_bits) + 1]
        \div Pow2(self.max_bits - 1 - (p % self.max_bits))) % 2
CodeBit(code, b, k) == (code \div Pow2(b - 1 - k)) % 2

\* C16: in every state of a live vector, element i occupies the stream bits
\* i * element_bits, ..., (i + 1) * element_bits - 1 as the big-endian binary
\* of the code last written to it, with no padding anywhere.
C16_Layout ==
    alive =>
        \A i \in 0..(units - 1), k \in 0..(bits - 1) :
            Bit(Self, i * bits + k) = CodeBit(model[i + 1], bits, k)

C16_Witness ==
    /\ alive
    /\ last = Call("set", "none", NoArg)
    /\ bits = 5
    /\ units = MaxDense
    /\ model[2] # model[1]
    /\ model[2] # model[3]
    /\ Straddles(1)

RECURSIVE Gcd(_, _)
Gcd(a, b) == IF b = 0 THEN a ELSE Gcd(b, a % b)

\* C17: at every width from 1 on, from every vector reached and for every
\* length > len(), extend_with_element returns; its aligning loop makes at most
\* W / gcd(element_bits, W) pushes and ends with leftover = 0 or with nothing
\* left to add, and the block vector then ends with leftover = 0 after exactly
\* W / gcd(element_bits, W) pushes, in element_bits / gcd(element_bits, W)
\* words.
C17_BulkFillTerminates ==
    (Fresh /\ bits >= 1) =>
        \A n \in (units + 1)..MaxLen, value \in Vals(bits) :
            LET g     == Gcd(bits, W)
                p1    == extendAlign(Self, n - units, value, overflow_checks)
                first == push(new(bits).v, value, overflow_checks)
                temp  == extendBlock(first.v, p1.remain, value, overflow_checks)
                r     == extend_with_element(Self, n, value, overflow_checks)
            IN  /\ r.panic = "none"
                /\ p1.panic = "none"
                /\ len(p1.v) - units <= W \div g
                /\ p1.done => p1.remain = 0 /\ r.v = p1.v
                /\ ~p1.done =>
                      /\ p1.remain > 0
                      /\ p1.v.leftover = 0
                      /\ temp.panic = "none"
                      /\ temp.v.leftover = 0
                      /\ len(temp.v) = W \div g
                      /\ inner_len(temp.v) = bits \div g

\* Width 6: blocks of four elements in three words; one element is aligned
\* to, three blocks are copied and one element is pushed after them.
C17_Witness ==
    /\ alive
    /\ last = Call("extend_with_element", "none", NoArg)
    /\ bits = 6
    /\ units = MaxLen
    /\ model[1] # model[MaxLen]
    /\ FilledFrom(model, 1)

\* Every stream bit of self after the last element is zero.
Padding(self) ==
    \A p \in (self.units * self.bits)..(self.max_bits * Len(self.inner) - 1) :
        Bit(self, p) = 0

\* C18: in every state of a live vector every storage bit at a stream position
\* >= len() * element_bits is zero, and a set of the last element, across two
\* words or not, leaves them zero.
C18_ZeroPadding ==
    alive =>
        /\ Padding(Self)
        /\ \A i \in {units - 1} \cap Nat, value \in TestVals(bits) :
              Padding(set(Self, i, value, overflow_checks).v)

\* The last of three elements of three bits lies across two words.
C18_Witness ==
    /\ alive
    /\ last = Call("set", "none", NoArg)
    /\ bits = 3
    /\ units = 3
    /\ Straddles(units - 1)
    /\ model[3] = Pow2(bits) - 2

\* The vector built from new(bits) by pushing the codes of m in order.
RECURSIVE pushSeq(_, _, _)
pushSeq(self, m, chk) ==
    IF m = <<>> THEN Res(self, "none")
    ELSE LET r == push(self, Head(m), chk)
         IN  IF r.panic # "none" THEN r ELSE pushSeq(r.v, Tail(m), chk)

\* C19: every vector reached, whatever built it, is equal to the vector of the
\* same width built by pushing the same codes; it is equal to itself after a
\* set exactly when the set wrote the code that was there, and never equal to
\* itself with one element more: == holds iff the lengths and every get agree.
C19_CanonicalEquality ==
    Fresh =>
        /\ LET canon == pushSeq(new(bits).v, model, overflow_checks)
           IN  canon.panic = "none" /\ eq(Self, canon.v) /\ eq(canon.v, Self)
        /\ \A i \in 0..(units - 1), value \in TestVals(bits) :
              eq(set(Self, i, value, overflow_checks).v, Self)
                  = (Elem(Self, i) = Some(value))
        /\ \A value \in Vals(bits) :
              LET r == push(Self, value, overflow_checks)
              IN  r.panic = "none" => ~eq(r.v, Self) /\ ~eq(Self, r.v)

\* A bulk fill followed by a set.
C19_Witness ==
    /\ alive
    /\ last = Call("set", "none", NoArg)
    /\ bits = 5
    /\ units = MaxLen
    /\ model[1] # model[MaxLen]

\* C20: at every width new accepts, 0 included, no shift of push, checked_get
\* or set on valid arguments overflows the word (the build with overflow
\* checks never panics on a shift).
C20_ShiftSafety ==
    /\ last.panic # "shift"
    /\ alive =>
          /\ \A value \in Vals(bits) : push(Self, value, TRUE).panic # "shift"
          /\ \A i \in 0..(units - 1) :
                /\ checked_get(Self, i, TRUE).panic # "shift"
                /\ \A value \in Vals(bits) : set(Self, i, value, TRUE).panic # "shift"

====
